---- MODULE Spec2Model ----
(***************************************************************************)
(* Model of uavcan_linux/helpers.hpp: the BlockingServiceClient wrapper    *)
(* (blocking service calls built on Node::spin) and the Node factories.    *)
(* The wrapped uavcan::ServiceClient, uavcan::Node::spin and the endpoint  *)
(* primitives live outside helpers.hpp; they are modelled as the           *)
(* environment the header is written against.                              *)
(***************************************************************************)
EXTENDS Integers, Sequences, FiniteSets, TLC

(* ---- bounds ---- *)
MaxTimeout == 4      \* request timeouts range over 1..MaxTimeout (ms)
MaxCalls   == 2      \* blockingCall invocations per behaviour
MaxStatus  == 1      \* non-negative statuses range over 0..MaxStatus
MaxErr     == 2      \* negative statuses range over -MaxErr..-1
MaxPayload == 2      \* response payloads range over 0..MaxPayload
MaxIfaces  == 3      \* interface-name lists have at most MaxIfaces names
MaxEndpoints == 2    \* endpoints registered with the node at one time

(* ---- program constants ---- *)
SpinDuration    == 2     \* helpers.hpp:210, MonotonicDuration::fromMSec(2)
DefaultResponse == 0     \* helpers.hpp:197, typename DataType::Response()

OkStatuses  == 0..MaxStatus
NegStatuses == (0 - MaxErr)..(0 - 1)
Statuses    == NegStatuses \cup OkStatuses
Timeouts    == 1..MaxTimeout
Payloads    == 0..MaxPayload

(* an absent value is the empty tuple, a present value x is <<x>> *)
None == <<>>
Some(x) == <<x>>
Val(o) == o[1]

(* uavcan::ServiceCallResult<DataType>: status and response payload *)
ServiceCallResult(status, response) == [status |-> status, response |-> response]

(* result handed to the callback when the request timeout expires *)
TimeoutResult == ServiceCallResult("ErrorTimeout", DefaultResponse)

(* results produced by a response frame from the peer *)
PeerResults == { ServiceCallResult(s, p) : s \in {"Success", "Failure"}, p \in Payloads }

(* ServiceCallResult::isSuccessful() *)
isSuccessful(res) == res.status = "Success"

VARIABLES
    pc,                     \* position of the caller's thread
    response_,              \* BlockingServiceClient::response_
    call_was_successful_,   \* BlockingServiceClient::call_was_successful_
    pending,                \* wrapped client: a request is outstanding
    request_timeout,        \* wrapped client: configured request timeout
    elapsed,                \* time since the outstanding request was issued
    call_res,               \* local call_res of the running blockingCall
    ret,                    \* value returned by the last blockingCall
    spins,                  \* spin steps made by the current blockingCall
    lastSpin,               \* spin_res of its latest spin step
    cb,                     \* argument of the latest callback since entry
    calls,                  \* blockingCall invocations so far
    prevOutcome,            \* <<wasSuccessful, getResponse>> at latest entry
    issued,                 \* Super::call invocations of the current blockingCall
    argTimeout,             \* timeout argument of the current blockingCall, if any
    issuedWith              \* client state at the moment Super::call was invoked

issueVars == <<issued, argTimeout, issuedWith>>

clientVars == <<pc, response_, call_was_successful_, pending, request_timeout,
                elapsed, call_res, ret, spins, lastSpin, cb, calls, prevOutcome,
                issueVars>>

VARIABLES
    node,        \* the Node made by makeNode, if any
    live,        \* endpoints registered with the node
    handle,      \* value returned by the latest factory call
    thrown,      \* exception raised by the latest operation
    lastOp,      \* the latest operation and its inputs
    prevFail,    \* status of the operation before it, if that was a failed factory call
    phase,       \* construction / destruction stage of the Node object
    dpRefs,      \* shared_ptr references to the DriverPack; it exists while > 0
    nodeRefs     \* NodePtr references to the Node object

lifeVars == <<phase, dpRefs, nodeRefs>>

nodeVars == <<node, live, handle, thrown, lastOp, prevFail, lifeVars>>

vars == <<clientVars, nodeVars>>

(* ---- BlockingServiceClient members ---- *)

callback_AlwaysSuccessful(res) ==
    [response_ |-> res.response, call_was_successful_ |-> TRUE]

callback_DropResponse(res) ==
    [response_ |-> response_, call_was_successful_ |-> isSuccessful(res)]

(* callback(): stores the delivered response and the success flag *)
callback(res) ==
    [response_ |-> res.response, call_was_successful_ |-> isSuccessful(res)]

setup_FlagTrue ==
    [response_ |-> DefaultResponse, call_was_successful_ |-> TRUE]

setup_KeepFlag ==
    [response_ |-> DefaultResponse, call_was_successful_ |-> call_was_successful_]

setup_KeepResponse ==
    [response_ |-> response_, call_was_successful_ |-> FALSE]

(* setup(): clears the success flag and the stored response *)
setup ==
    [response_ |-> DefaultResponse, call_was_successful_ |-> FALSE]

wasSuccessful == call_was_successful_

getResponse == response_

(* Super::isPending() *)
isPending == pending

SpinFailed_OffByOne(spin_res) == spin_res < 0 - 1

(* the test "spin_res < 0" inside the loop *)
SpinFailed(spin_res) == spin_res < 0

CallAccepted_Always(res) == TRUE

(* the test "call_res >= 0" guarding the loop *)
CallAccepted(res) == res >= 0

ReturnValue_Zero(res) == 0

(* the value of "return call_res" after the loop *)
ReturnValue(res) == res

OnIssueFailure_Retry == "call"

(* where control goes when call_res is negative: past the loop, to
   "return call_res" *)
OnIssueFailure == "done"

LoopCondition_Always == TRUE

(* the loop condition "Super::isPending()" *)
LoopCondition == isPending

(* ---- state after BlockingServiceClient(node) ---- *)
ClientInit ==
    /\ pc = "idle"
    /\ response_ = DefaultResponse
    /\ call_was_successful_ = FALSE
    /\ pending = FALSE
    /\ request_timeout \in Timeouts
    /\ elapsed = 0
    /\ call_res = None
    /\ ret = None
    /\ spins = 0
    /\ lastSpin = None
    /\ cb = None
    /\ calls = 0
    /\ prevOutcome = None
    /\ issued = 0
    /\ argTimeout = None
    /\ issuedWith = None

Enter ==
    /\ pc \in {"idle", "done"}
    /\ calls < MaxCalls
    /\ pc' = "setup"
    /\ calls' = calls + 1
    /\ prevOutcome' = Some([wasSuccessful |-> wasSuccessful, getResponse |-> getResponse])
    /\ call_res' = None
    /\ ret' = None
    /\ spins' = 0
    /\ lastSpin' = None
    /\ cb' = None
    /\ issued' = 0
    /\ issuedWith' = None
    /\ UNCHANGED <<response_, call_was_successful_, pending, elapsed>>
    /\ UNCHANGED nodeVars

(* blockingCall(server_node_id, request): entry *)
BlockingCall ==
    /\ Enter
    /\ argTimeout' = None
    /\ UNCHANGED request_timeout

BlockingCallTimeout_NotApplied ==
    \E timeout \in Timeouts :
        /\ Enter
        /\ argTimeout' = Some(timeout)
        /\ UNCHANGED request_timeout

(* blockingCall(server_node_id, request, timeout): setRequestTimeout, then
   the two-argument overload *)
BlockingCallTimeout ==
    \E timeout \in Timeouts :
        /\ Enter
        /\ argTimeout' = Some(timeout)
        /\ request_timeout' = timeout

(* setup() at the top of blockingCall *)
Setup ==
    /\ pc = "setup"
    /\ response_' = setup.response_
    /\ call_was_successful_' = setup.call_was_successful_
    /\ pc' = "call"
    /\ UNCHANGED <<pending, request_timeout, elapsed, call_res, ret, spins,
                   lastSpin, cb, calls, prevOutcome, issueVars>>
    /\ UNCHANGED nodeVars

(* const int call_res = Super::call(...); if it is negative the function
   falls through to "return call_res" *)
Call ==
    /\ pc = "call"
    /\ \E res \in Statuses :
        /\ call_res' = Some(res)
        /\ IF res >= 0
             THEN /\ pending' = TRUE
                  /\ elapsed' = 0
             ELSE \/ /\ pending' = FALSE
                     /\ elapsed' = 0
                  \/ UNCHANGED <<pending, elapsed>>
        /\ IF CallAccepted(res)
             THEN /\ pc' = "loop"
                  /\ ret' = ret
             ELSE /\ pc' = OnIssueFailure
                  /\ ret' = Some(ReturnValue(res))
    /\ issued' = issued + 1
    /\ issuedWith' = Some([request_timeout |-> request_timeout,
                           wasSuccessful |-> wasSuccessful,
                           getResponse |-> getResponse])
    /\ UNCHANGED <<response_, call_was_successful_, request_timeout, spins,
                   lastSpin, cb, calls, prevOutcome, argTimeout>>
    /\ UNCHANGED nodeVars

(* the wrapped client resolves the outstanding call and invokes callback *)
Deliver(res) ==
    /\ response_' = callback(res).response_
    /\ call_was_successful_' = callback(res).call_was_successful_
    /\ pending' = FALSE
    /\ elapsed' = 0
    /\ cb' = Some(res)

(* one successful Node::spin(SpinDuration) as seen by the wrapped client:
   a response frame is processed, or the request deadline passes, or
   nothing concerning this client happens *)
NodeSpin ==
    IF pending
      THEN \/ \E res \in PeerResults : Deliver(res)
           \/ IF elapsed + SpinDuration >= request_timeout
                THEN Deliver(TimeoutResult)
                ELSE /\ elapsed' = elapsed + SpinDuration
                     /\ UNCHANGED <<response_, call_was_successful_, pending, cb>>
      ELSE UNCHANGED <<response_, call_was_successful_, pending, elapsed, cb>>

(* while (Super::isPending()) { spin_res = spin(SpinDuration);
   if (spin_res < 0) return spin_res; } *)
SpinStep ==
    /\ pc = "loop"
    /\ LoopCondition
    /\ spins' = spins + 1
    /\ \E spin_res \in Statuses :
        /\ lastSpin' = Some(spin_res)
        /\ IF spin_res < 0
             THEN UNCHANGED <<response_, call_was_successful_, pending, elapsed, cb>>
             ELSE NodeSpin
        /\ IF SpinFailed(spin_res)
             THEN /\ pc' = "done"
                  /\ ret' = Some(spin_res)
             ELSE /\ pc' = "loop"
                  /\ ret' = ret
    /\ UNCHANGED <<request_timeout, call_res, calls, prevOutcome, issueVars>>
    /\ UNCHANGED nodeVars

Return_WhilePending ==
    /\ pc = "loop"
    /\ pc' = "done"
    /\ ret' = Some(ReturnValue(Val(call_res)))
    /\ UNCHANGED <<response_, call_was_successful_, pending, request_timeout,
                   elapsed, call_res, spins, lastSpin, cb, calls, prevOutcome,
                   issueVars>>
    /\ UNCHANGED nodeVars

(* loop exit: isPending() is false, return call_res *)
Return ==
    /\ pc = "loop"
    /\ ~LoopCondition
    /\ pc' = "done"
    /\ ret' = Some(ReturnValue(Val(call_res)))
    /\ UNCHANGED <<response_, call_was_successful_, pending, request_timeout,
                   elapsed, call_res, spins, lastSpin, cb, calls, prevOutcome,
                   issueVars>>
    /\ UNCHANGED nodeVars

(* between blocking calls the caller drives Node::spin itself *)
CallerSpin ==
    /\ pc \in {"idle", "done"}
    /\ pc' = "idle"
    /\ \/ NodeSpin
       \/ UNCHANGED <<response_, call_was_successful_, pending, elapsed, cb>>
    /\ UNCHANGED <<request_timeout, call_res, ret, spins, lastSpin, calls,
                   prevOutcome, issueVars>>
    /\ UNCHANGED nodeVars

(* ---- Node, makeNode and the endpoint factories ---- *)

IfaceNames == {"ifA", "ifB"}
DataTypes == {"X", "Y"}
Callbacks == {"cb1", "cb2"}
ClockModes == {"SystemWide", "PerDriverPrivate"}
FactoryOps == {"makeSubscriber", "makePublisher", "makeServiceServer",
               "makeServiceClient"}

RECURSIVE SeqsUpTo(_, _)
SeqsUpTo(S, n) ==
    IF n = 0 THEN {<<>>}
    ELSE LET shorter == SeqsUpTo(S, n - 1)
         IN shorter \cup {Append(q, x) : q \in {r \in shorter : Len(r) = n - 1}, x \in S}

IfaceLists == SeqsUpTo(IfaceNames, MaxIfaces)

(* values addIface may return: a failure or the index of the new interface *)
AddResults == {0 - 1} \cup OkStatuses

(* uavcan_linux::Exception carrying its message, kept as the pieces the
   message is concatenated from *)
Exception(what) == [kind |-> "Exception", what |-> what]

enforce_OffByOne(error, msg) ==
    IF error < 0 - 1 THEN Some(Exception(Append(msg, error))) ELSE None

enforce_DropStatus(error, msg) ==
    IF error < 0 THEN Some(Exception(Append(msg, 0))) ELSE None

(* enforce(error, msg): throws Exception(msg + " [" + error + "]") when error
   is negative; the result is the exception thrown, if any *)
enforce(error, msg) ==
    IF error < 0 THEN Some(Exception(Append(msg, error))) ELSE None

(* getDataTypeName<DataType>() *)
getDataTypeName(type) == type

(* DriverPack(clock_adjustment_mode): a clock and a CAN driver bound to it,
   no interfaces yet *)
DriverPack(mode) == [clock |-> mode, ifaces |-> <<>>, asked |-> <<>>]

AddFailed_Positive(res) == res > 0

AddFailed_Never(res) == FALSE

(* the test "dp->can.addIface(ifn) < 0" *)
AddFailed(res) == res < 0

(* SocketCanDriver::addIface: on success the interface joins the driver;
   asked lists the names addIface has been called with *)
addIface(dp, ifn, res) ==
    [dp EXCEPT !.ifaces = IF res >= 0 THEN Append(@, ifn) ELSE @,
               !.asked = Append(@, ifn)]

(* Node(DriverPackPtr): the node keeps the driver pack *)
Node(dp) == [driver_pack_ |-> dp]

(* the for loop of makeNode from position i on; results[i] is what addIface
   returns for iface_names[i] *)
RECURSIVE AddIfaces(_, _, _, _)
AddIfaces(dp, iface_names, results, i) ==
    IF i > Len(iface_names)
      THEN [node |-> Some(Node(dp)), thrown |-> None, dp |-> dp]
      ELSE LET added == addIface(dp, iface_names[i], results[i])
           IN IF AddFailed(results[i])
                THEN [node |-> None,
                      thrown |-> Some(Exception(<<"Failed to add iface ", iface_names[i]>>)),
                      dp |-> added]
                ELSE AddIfaces(added, iface_names, results, i + 1)

(* makeNode(iface_names, clock_adjustment_mode) *)
makeNode(iface_names, results, mode) ==
    AddIfaces(DriverPack(mode), iface_names, results, 1)

NodeInit ==
    /\ node = None
    /\ live = {}
    /\ handle = None
    /\ thrown = None
    /\ lastOp = [op |-> "none"]
    /\ prevFail = None
    /\ phase = "none"
    /\ dpRefs = 0
    /\ nodeRefs = 0

(* the caller has no node yet; an exception out of makeNode ends the
   construction attempt and is not retried *)
MakeNodeWith(mode) ==
    /\ node = None
    /\ thrown = None
    /\ \E iface_names \in IfaceLists :
       \E results \in [1..Len(iface_names) -> AddResults] :
          LET r == makeNode(iface_names, results, mode)
          IN /\ node' = r.node
             /\ thrown' = r.thrown
             /\ lastOp' = [op |-> "makeNode", iface_names |-> iface_names,
                           results |-> results, dp |-> r.dp]
             /\ IF r.node # None
                  THEN phase' = "returned" /\ dpRefs' = 1 /\ nodeRefs' = 1
                  ELSE UNCHANGED lifeVars
    /\ handle' = None
    /\ prevFail' = None
    /\ UNCHANGED live

(* makeNode(iface_names, clock_adjustment_mode) *)
MakeNode == \E mode \in ClockModes : MakeNodeWith(mode)

(* makeNode(iface_names): the mode is the one the clock detects *)
MakeNodeAuto == \E detected \in ClockModes : MakeNodeWith(detected)

(* the endpoint object created by the "new" expression of a factory *)
NewEndpoint(kind, type) ==
    [id |-> CHOOSE i \in 1..MaxEndpoints : \A e \in live : e.id # i,
     kind |-> kind]

(* start(cb) / init(): a non-negative status registers the endpoint with the
   node; a failed one may have registered it before failing *)
Started(p, status, partial) ==
    IF status >= 0 \/ partial THEN live \cup {p} ELSE live

Unwind_Leak(p, registered) == registered

(* the shared_ptr p going out of scope when enforce throws: the endpoint is
   destroyed and removes itself from the node *)
Unwind(p, registered) == registered \ {p}

ConfigureAfterEnforce_Early(exc, config) == Some(config)

(* p->setTxTimeout(tx_timeout) / p->setCallback(cb) on the line after
   enforce: reached only when enforce did not throw; the result is the
   configuration applied to the endpoint, if any *)
ConfigureAfterEnforce(exc, config) ==
    IF exc = None THEN Some(config) ELSE None

(* the common shape of the four factories: new, start/init, enforce,
   configure, return; makeSubscriber and makeServiceServer hand the callback
   to start() itself *)
Factory(op, msg, type, status, partial, config) ==
    LET p == NewEndpoint(op, type)
        registered == Started(p, status, partial)
        exc == enforce(status, <<msg, getDataTypeName(type)>>)
        configured == IF op \in {"makePublisher", "makeServiceClient"}
                        THEN ConfigureAfterEnforce(exc, config)
                        ELSE Some(config)
    IN /\ node # None
       /\ Cardinality(live) < MaxEndpoints
       /\ thrown' = exc
       /\ IF exc # None
            THEN /\ live' = Unwind(p, registered)
                 /\ handle' = None
            ELSE /\ live' = registered
                 /\ handle' = Some([endpoint |-> p, type |-> type,
                                    config |-> Val(configured)])
       /\ lastOp' = [op |-> op, type |-> type, status |-> status,
                     requested |-> config, configured |-> configured]
       /\ prevFail' = IF thrown # None /\ lastOp.op \in FactoryOps
                        THEN Some(lastOp.status) ELSE None
       /\ UNCHANGED <<node, lifeVars>>

MakeSubscriber ==
    \E type \in DataTypes, status \in Statuses, partial \in BOOLEAN, c \in Callbacks :
        Factory("makeSubscriber", "Subscriber start failure ", type, status,
                partial, [callback |-> c])

MakePublisher ==
    \E type \in DataTypes, status \in Statuses, partial \in BOOLEAN,
       tx_timeout \in {1, MaxTimeout} :
        Factory("makePublisher", "Publisher init failure ", type, status,
                partial, [tx_timeout |-> tx_timeout])

MakeServiceServer ==
    \E type \in DataTypes, status \in Statuses, partial \in BOOLEAN, c \in Callbacks :
        Factory("makeServiceServer", "ServiceServer start failure ", type, status,
                partial, [callback |-> c])

MakeServiceClient ==
    \E type \in DataTypes, status \in Statuses, partial \in BOOLEAN, c \in Callbacks :
        Factory("makeServiceClient", "ServiceClient init failure ", type, status,
                partial, [callback |-> c])

(* the caller lets go of an endpoint handle: the endpoint is destroyed and
   removes itself from the node *)
DropHandle ==
    /\ \E e \in live : live' = live \ {e}
    /\ handle' = None
    /\ thrown' = None
    /\ lastOp' = [op |-> "drop"]
    /\ prevFail' = None
    /\ UNCHANGED <<node, lifeVars>>

Init == ClientInit /\ NodeInit

(* node construction on its own *)
MakeNodeNext ==
    \/ MakeNode /\ UNCHANGED clientVars
    \/ MakeNodeAuto /\ UNCHANGED clientVars

MakeNodeInit == Init /\ request_timeout = 1

MakeNodeSpec == MakeNodeInit /\ [][MakeNodeNext]_vars

(* the factories of a node that makeNode has returned *)
FactoryInit ==
    /\ ClientInit
    /\ request_timeout = 1
    /\ node = makeNode(<<"ifA">>, <<0>>, "SystemWide").node
    /\ live = {}
    /\ handle = None
    /\ thrown = None
    /\ lastOp = [op |-> "none"]
    /\ prevFail = None
    /\ phase = "returned"
    /\ dpRefs = 1
    /\ nodeRefs = 1

FactoryNext ==
    \/ MakeSubscriber /\ UNCHANGED clientVars
    \/ MakePublisher /\ UNCHANGED clientVars
    \/ MakeServiceServer /\ UNCHANGED clientVars
    \/ MakeServiceClient /\ UNCHANGED clientVars
    \/ DropHandle /\ UNCHANGED clientVars

FactorySpec == FactoryInit /\ [][FactoryNext]_vars

(* ---- lifetime of the Node object and of the DriverPack it keeps ---- *)

MaxNodePtrs == 2     \* NodePtr copies the caller holds at one time

(* makeNode up to the end of its for loop: dp is the only reference to the
   DriverPack; an exception destroys dp and with it the DriverPack *)
MakeNodeLoop ==
    /\ phase = "none"
    /\ node = None
    /\ thrown = None
    /\ lastOp.op = "none"
    /\ \E iface_names \in IfaceLists, mode \in ClockModes :
       \E results \in [1..Len(iface_names) -> AddResults] :
          LET r == makeNode(iface_names, results, mode)
          IN /\ thrown' = r.thrown
             /\ lastOp' = [op |-> "makeNode", iface_names |-> iface_names,
                           results |-> results, dp |-> r.dp]
             /\ IF r.thrown = None
                  THEN phase' = "loop_done" /\ dpRefs' = 1
                  ELSE phase' = "none" /\ dpRefs' = 0
    /\ UNCHANGED <<node, live, handle, prevFail, nodeRefs>>

(* new Node(dp): dp is copied into the parameter driver_pack and the base
   class uavcan::Node is constructed on driver_pack->can and
   driver_pack->clock *)
NodeConstructBase ==
    /\ phase = "loop_done"
    /\ phase' = "base"
    /\ dpRefs' = dpRefs + 1
    /\ UNCHANGED <<node, live, handle, thrown, lastOp, prevFail, nodeRefs>>

(* the member initialiser driver_pack_(driver_pack) *)
NodeInitMember ==
    /\ phase = "base"
    /\ phase' = "built"
    /\ dpRefs' = dpRefs + 1
    /\ UNCHANGED <<node, live, handle, thrown, lastOp, prevFail, nodeRefs>>

(* the constructor and makeNode return: the parameter driver_pack and the
   local dp go away, the caller receives the NodePtr *)
MakeNodeReturn ==
    /\ phase = "built"
    /\ phase' = "returned"
    /\ dpRefs' = dpRefs - 2
    /\ nodeRefs' = 1
    /\ node' = Some(Node(lastOp.dp))
    /\ UNCHANGED <<live, handle, thrown, lastOp, prevFail>>

(* the caller copies its NodePtr *)
CopyNodePtr ==
    /\ phase = "returned"
    /\ nodeRefs < MaxNodePtrs
    /\ nodeRefs' = nodeRefs + 1
    /\ UNCHANGED <<node, live, handle, thrown, lastOp, prevFail, phase, dpRefs>>

(* the caller drops a NodePtr; dropping the last one starts ~Node *)
DropNodePtr ==
    /\ phase = "returned"
    /\ nodeRefs' = nodeRefs - 1
    /\ IF nodeRefs = 1
         THEN phase' = "dtor" /\ node' = None
         ELSE UNCHANGED <<phase, node>>
    /\ UNCHANGED <<live, handle, thrown, lastOp, prevFail, dpRefs>>

(* ~Node: the members declared in class Node, log_sink_ and driver_pack_,
   are destroyed before the base class *)
NodeDestroyMembers ==
    /\ phase = "dtor"
    /\ phase' = "members_gone"
    /\ dpRefs' = dpRefs - 1
    /\ UNCHANGED <<node, live, handle, thrown, lastOp, prevFail, nodeRefs>>

(* ~Node: the base class uavcan::Node is destroyed last *)
NodeDestroyBase ==
    /\ phase = "members_gone"
    /\ phase' = "gone"
    /\ UNCHANGED <<node, live, handle, thrown, lastOp, prevFail, dpRefs, nodeRefs>>

LifetimeNext ==
    \/ MakeNodeLoop /\ UNCHANGED clientVars
    \/ NodeConstructBase /\ UNCHANGED clientVars
    \/ NodeInitMember /\ UNCHANGED clientVars
    \/ MakeNodeReturn /\ UNCHANGED clientVars
    \/ CopyNodePtr /\ UNCHANGED clientVars
    \/ DropNodePtr /\ UNCHANGED clientVars
    \/ NodeDestroyMembers /\ UNCHANGED clientVars
    \/ NodeDestroyBase /\ UNCHANGED clientVars

LifetimeSpec == MakeNodeInit /\ [][LifetimeNext]_vars

Next ==
    \/ BlockingCall
    \/ BlockingCallTimeout
    \/ Setup
    \/ Call
    \/ SpinStep
    \/ Return
    \/ CallerSpin

Spec == Init /\ [][Next]_vars

(* the calling thread keeps running while it is inside blockingCall *)
FairSpec == Spec /\ WF_vars(Setup \/ Call \/ SpinStep \/ Return)

(* ---- helper predicates over the current invocation ---- *)
Returned == pc = "done"
SpinError == lastSpin # None /\ Val(lastSpin) < 0
IssueError == call_res # None /\ Val(call_res) < 0
Issued == call_res # None /\ Val(call_res) >= 0
PeerResponded == cb # None /\ Val(cb) \in PeerResults
TimedOut == cb = Some(TimeoutResult)

(* C1: when a spin step made inside blockingCall returns a negative status,
   blockingCall is over with exactly that status as its return value, no
   later spin step belongs to the invocation, and the request is still
   outstanding with its timeout not yet reached *)
C1_SpinErrorReturned ==
    SpinError =>
        /\ pc \in {"done", "idle"}
        /\ ret = lastSpin
        /\ Returned => (pending /\ elapsed < request_timeout)

C1_Witness == Returned /\ SpinError /\ spins >= 2

(* C2: when Super::call returns a negative status, blockingCall returns that
   status and has made no spin step *)
C2_IssueErrorReturned ==
    IssueError =>
        /\ pc \in {"done", "idle"}
        /\ ret = call_res
        /\ spins = 0
        /\ lastSpin = None

C2_Witness == Returned /\ IssueError /\ calls = 2 /\ pending

(* C3: a call that was accepted, met no spin error and got no response from
   the peer has returned the non-negative issuance status after the request
   timeout resolved it, within ceil(T / SpinDuration) spin steps and with
   wasSuccessful() false; and every blockingCall that reaches its loop
   returns *)
C3_NoResponseState ==
    (Returned /\ Issued /\ ~SpinError /\ ~PeerResponded) =>
        /\ TimedOut
        /\ ~pending
        /\ ret = call_res
        /\ Val(ret) >= 0
        /\ ~wasSuccessful
        /\ spins * SpinDuration >= request_timeout
        /\ (spins - 1) * SpinDuration < request_timeout

C3_TimeoutResolves ==
    /\ [] C3_NoResponseState
    /\ (pc = "loop") ~> (pc = "done")

C3_Witness == Returned /\ TimedOut /\ spins >= 2

(* C4: when the peer's successful response was delivered during the
   invocation, blockingCall returns the non-negative issuance status,
   wasSuccessful() is true and getResponse() is the delivered payload *)
C4_ResponseDelivered ==
    (Returned /\ cb # None /\ Val(cb).status = "Success") =>
        /\ ~SpinError
        /\ ret = call_res
        /\ Val(ret) >= 0
        /\ wasSuccessful
        /\ getResponse = Val(cb).response

C4_Witness ==
    /\ Returned
    /\ wasSuccessful
    /\ getResponse = MaxPayload
    /\ spins >= 2

(* C5: after a second or later blockingCall returns, wasSuccessful() and
   getResponse() are determined by what was delivered during that
   invocation alone: nothing delivered gives false and the default
   response *)
C5_NoLeak ==
    (Returned /\ calls >= 2) =>
        /\ wasSuccessful = (cb # None /\ Val(cb).status = "Success")
        /\ getResponse = IF cb # None THEN Val(cb).response ELSE DefaultResponse

C5_Witness ==
    /\ Returned
    /\ calls >= 2
    /\ Val(prevOutcome).wasSuccessful
    /\ Val(prevOutcome).getResponse # DefaultResponse
    /\ cb = None

(* C6: when blockingCall returns and no spin step failed, the return value
   is the status Super::call returned *)
C6_ReturnsIssuanceStatus ==
    (Returned /\ ~SpinError) => ret = call_res

C6_Witness ==
    /\ Returned
    /\ ~wasSuccessful
    /\ spins >= 1
    /\ ~SpinError
    /\ Val(ret) = MaxStatus

(* C7: before the first blockingCall, and inside a blockingCall while the
   wrapped client reports the call pending, wasSuccessful() is false and
   getResponse() is the default response *)
C7_DefaultsWhilePending ==
    (calls = 0 \/ (pc \in {"setup", "call", "loop"} /\ isPending)) =>
        /\ ~wasSuccessful
        /\ getResponse = DefaultResponse

C7_Witness ==
    /\ pc = "loop"
    /\ isPending
    /\ spins >= 1
    /\ calls >= 2
    /\ Val(prevOutcome).getResponse # DefaultResponse

(* C11: blockingCall never re-issues the request: an invocation has called
   Super::call at most once, and exactly once from the moment it is in its
   loop or has returned, however it ended *)
C11_IssuedOnce ==
    /\ issued <= 1
    /\ pc \in {"loop", "done"} => issued = 1

C11_Witness == Returned /\ SpinError /\ issued = 1 /\ calls >= 2

(* C15: in the overload taking a timeout, Super::call is invoked with the
   wrapped client's request timeout equal to the timeout argument of that
   invocation and with the success flag and response already reset *)
C15_TimeoutAndResetBeforeIssue ==
    (argTimeout # None /\ issuedWith # None) =>
        /\ Val(issuedWith).request_timeout = Val(argTimeout)
        /\ Val(issuedWith).wasSuccessful = FALSE
        /\ Val(issuedWith).getResponse = DefaultResponse

C15_Witness ==
    /\ argTimeout # None
    /\ issuedWith # None
    /\ calls >= 2
    /\ Val(prevOutcome).wasSuccessful
    /\ Val(argTimeout) = MaxTimeout
    /\ TimedOut

(* C16: when blockingCall has returned a non-negative status the wrapped
   client is not pending; when it has returned with the request it issued
   still pending, the return value is the negative status of its last spin
   step *)
C16_PendingAtReturnOnlyOnSpinError ==
    /\ (Returned /\ Val(ret) >= 0) => ~isPending
    /\ (Returned /\ Issued /\ isPending) =>
          (SpinError /\ ret = lastSpin /\ Val(ret) < 0)

C16_Witness == Returned /\ Issued /\ isPending /\ spins >= 2

(* C17: outside the window between entry and setup(), wasSuccessful() is
   true only if the latest callback since entry carried a successful result,
   and getResponse() is then its payload; when blockingCall has returned a
   negative status wasSuccessful() is false and getResponse() is the default
   response *)
C17_SuccessOnlyFromCallback ==
    /\ (pc # "setup" /\ wasSuccessful) =>
          /\ cb # None
          /\ Val(cb).status = "Success"
          /\ getResponse = Val(cb).response
    /\ (Returned /\ Val(ret) < 0) =>
          /\ ~wasSuccessful
          /\ getResponse = DefaultResponse

C17_Witness ==
    /\ Returned
    /\ Val(ret) < 0
    /\ calls >= 2
    /\ Val(prevOutcome).wasSuccessful
    /\ Val(prevOutcome).getResponse # DefaultResponse

(* C18: a spin step is made only from a state in which the wrapped client
   reports the call pending, and once the call is no longer pending the
   invocation makes no further spin step *)
C18_SpinOnlyWhilePending ==
    [][ /\ (spins' = spins + 1) => isPending
        /\ (pc = "loop" /\ ~isPending) => (spins' = spins /\ pc' = "done") ]_vars

C18_Witness == Returned /\ ~isPending /\ cb # None /\ spins >= 2

(* ---- makeNode and the factories ---- *)
AllAttach(results) == \A i \in DOMAIN results : results[i] >= 0
FactoryFailed == lastOp.op \in FactoryOps /\ lastOp.status < 0

(* C8: after makeNode, if every addIface succeeded there is a node whose
   driver pack holds exactly the listed interfaces and nothing was thrown;
   otherwise there is no node and the exception names an interface whose
   addIface failed *)
C8_MakeNodeAllOrNothing ==
    lastOp.op = "makeNode" =>
        IF AllAttach(lastOp.results)
          THEN /\ node # None
               /\ Val(node).driver_pack_.ifaces = lastOp.iface_names
               /\ thrown = None
          ELSE /\ node = None
               /\ thrown # None
               /\ \E i \in DOMAIN lastOp.results :
                     /\ lastOp.results[i] < 0
                     /\ Val(thrown).what = <<"Failed to add iface ", lastOp.iface_names[i]>>

C8_Witness ==
    /\ lastOp.op = "makeNode"
    /\ Len(lastOp.iface_names) >= 2
    /\ lastOp.results[1] >= 0
    /\ lastOp.iface_names[1] # lastOp.iface_names[2]
    /\ lastOp.results[2] < 0
    /\ thrown # None

(* C9: a factory call whose start/init status is negative throws an
   exception whose message carries the data-type name and the status,
   returns no handle and leaves the node's registered endpoints as they
   were before the call *)
C9_FailedFactoryLeavesNoTrace ==
    [][ (lastOp'.op \in FactoryOps /\ lastOp'.status < 0) =>
            /\ live' = live
            /\ handle' = None
            /\ thrown' # None
            /\ Val(thrown').what[2] = lastOp'.type
            /\ Val(thrown').what[3] = lastOp'.status ]_vars

C9_Witness ==
    /\ FactoryFailed
    /\ thrown # None
    /\ handle = None
    /\ live # {}

(* C10 as claimed: two factory failures with different negative statuses
   raise errors of different kinds *)
C10_DistinctKinds ==
    [][ (/\ lastOp.op \in FactoryOps /\ lastOp.status < 0
         /\ lastOp'.op \in FactoryOps /\ lastOp'.status < 0
         /\ lastOp'.status # lastOp.status) =>
            Val(thrown').kind # Val(thrown).kind ]_vars

(* C10 as amended: factory failures reported by a negative start/init status
   all raise the same kind of error, Exception; two such failures with
   different statuses differ in the message, which carries the status *)
C10_OneKindStatusInMessage ==
    [][ (/\ lastOp.op \in FactoryOps /\ lastOp.status < 0
         /\ lastOp'.op \in FactoryOps /\ lastOp'.status < 0
         /\ lastOp'.status # lastOp.status) =>
            /\ Val(thrown').kind = "Exception"
            /\ Val(thrown').kind = Val(thrown).kind
            /\ Val(thrown').what # Val(thrown).what ]_vars

C10_Witness ==
    /\ FactoryFailed
    /\ thrown # None
    /\ prevFail # None
    /\ Val(prevFail) # lastOp.status

(* the base-class part of the Node object, which refers to the clock and the
   CAN driver of the DriverPack, exists *)
RuntimeExists == phase \in {"base", "built", "returned", "dtor", "members_gone"}

DriverPackExists == dpRefs > 0

(* C12: whenever the node, base-class runtime included, exists, the
   DriverPack with its clock and CAN driver exists as well *)
C12_StackLivesWithNode == RuntimeExists => DriverPackExists

(* first position whose addIface failed, Len + 1 when none did *)
FirstFailure(results) ==
    IF AllAttach(results) THEN Len(results) + 1
    ELSE CHOOSE k \in DOMAIN results :
            results[k] < 0 /\ \A j \in 1..(k - 1) : results[j] >= 0

(* C13: makeNode calls addIface on the names in list order up to and
   including the first one that fails: the names before it are attached, it
   is the one the exception names, and addIface is not called for any name
   after it *)
C13_InOrderUntilFirstFailure ==
    lastOp.op = "makeNode" =>
        LET names == lastOp.iface_names
            k == FirstFailure(lastOp.results)
        IN IF k > Len(names)
             THEN /\ lastOp.dp.asked = names
                  /\ lastOp.dp.ifaces = names
             ELSE /\ lastOp.dp.asked = SubSeq(names, 1, k)
                  /\ lastOp.dp.ifaces = SubSeq(names, 1, k - 1)
                  /\ thrown = Some(Exception(<<"Failed to add iface ", names[k]>>))
                  /\ node = None

C13_Witness ==
    /\ lastOp.op = "makeNode"
    /\ Len(lastOp.iface_names) >= 3
    /\ lastOp.results[1] >= 0
    /\ lastOp.results[2] < 0
    /\ lastOp.results[3] < 0
    /\ lastOp.iface_names[3] # lastOp.iface_names[2]
    /\ Len(lastOp.dp.asked) = 2

(* C14: makePublisher and makeServiceClient apply the transmit timeout or
   callback only after init succeeded: with a negative status nothing is
   configured and no handle is returned, otherwise the returned handle
   carries the requested configuration *)
C14_ConfigureOnlyAfterInit ==
    lastOp.op \in {"makePublisher", "makeServiceClient"} =>
        IF lastOp.status < 0
          THEN /\ lastOp.configured = None
               /\ handle = None
          ELSE /\ lastOp.configured = Some(lastOp.requested)
               /\ handle # None
               /\ Val(handle).config = lastOp.requested

C14_Witness ==
    /\ lastOp.op = "makePublisher"
    /\ lastOp.status < 0
    /\ lastOp.requested.tx_timeout = MaxTimeout
    /\ lastOp.configured = None

TypeOK ==
    /\ pc \in {"idle", "setup", "call", "loop", "done"}
    /\ response_ \in Payloads
    /\ call_was_successful_ \in BOOLEAN
    /\ pending \in BOOLEAN
    /\ request_timeout \in Timeouts
    /\ elapsed \in 0..MaxTimeout
    /\ calls \in 0..MaxCalls
====
